---- MODULE Spec2Model ----
\* flappy-claude: the game loop (run_game_loop), its input handler
\* (handle_input), the per-frame simulation step (update_game) and the
\* collaborators they call (Bird, Pipe, GameState, physics, scores).
\*
\* Units.  Every vertical quantity of the program is a float that is a
\* multiple of 0.5 (gravity 0.5, flap_strength -2.0, integer start row), so
\* bird.y, bird.velocity, gravity, flap_strength and terminal_velocity are
\* held here in HALF ROWS (the float times 2).  Horizontal quantities and the
\* pipe gap rows are integers, as in the program.
EXTENDS Integers, Sequences, FiniteSets, TLC

\* ---------------------------------------------------------------- Config
\* config.py: the frozen Config dataclass.  gravity, flap_strength and
\* pipe_speed have their DEFAULT_CONFIG values.  The field geometry and the
\* terminal velocity are a smaller Config instance (every function takes the
\* Config as a parameter), so that clamping, scoring and retirement all
\* happen inside the explored state space.
gravity == 1
flap_strength == -4
pipe_speed == 1
terminal_velocity == 4
pipe_gap == 3
pipe_spacing == 3
pipe_width == 2
screen_width == 6
screen_height == 8

\* Bird start column and row (GameState construction / reset).
BirdX == 2
BirdStartRow == 3

\* Bounds of the exploration.
MaxScore == 2
MaxInitHigh == 1

\* ---------------------------------------------------------------- enums
PLAYING == "playing"
DEAD == "dead"
PROMPTED == "prompted"
EXITING == "exiting"
GameStatus == {PLAYING, DEAD, PROMPTED, EXITING}

AUTO_RESTART == "auto_restart"
SINGLE_LIFE == "single_life"
GameMode == {AUTO_RESTART, SINGLE_LIFE}

\* get_key_nonblocking: one character, or None.  CtrlC is "\x03".
None == "None"
CtrlC == "ctrl_c"
Keys == {" ", "q", "Q", CtrlC, "y", "Y", "n", "N", "x"}
KeyOrNone == Keys \cup {None}

\* str.lower() on the one-character keys above.
lower(c) ==
    CASE c = "Q" -> "q"
      [] c = "Y" -> "y"
      [] c = "N" -> "n"
      [] OTHER -> c

Min(a, b) == IF a <= b THEN a ELSE b

\* int(n / 2) for an integer n: float division, truncation toward zero.
TruncHalf(n) == IF n >= 0 THEN n \div 2 ELSE -((-n) \div 2)

VARIABLES
    state,        \* the GameState object
    pc,           \* position inside run_game_loop
    key,          \* run_game_loop's local `key` (last get_key_nonblocking())
    k,            \* run_game_loop's local `k` (the wait loop's last read)
    stdin,        \* a key typed during the death display, not yet read
    signal_file,  \* run_game_loop's argument: TRUE iff a path was given
    signal,       \* TRUE iff the signal file now holds "ready"
    saved,        \* the integer in the high-score store
    consumed,     \* history: the signal was consumed in the current life
    asserted,     \* history: the signal file has held "ready" at some time
    retired,      \* history: passed pipes retired in the current life
    clamped       \* history: the last gravity step hit terminal_velocity

vars == <<state, pc, key, k, stdin, signal_file, signal, saved,
          consumed, asserted, retired, clamped>>

\* -------------------------------------------------- entities (Bird, Pipe)
InitialBird == [x |-> BirdX, y |-> 2 * BirdStartRow, velocity |-> 0]

\* Bird.flap(config)
flap(bird) == [bird EXCEPT !.velocity = flap_strength]

\* Pipe(x, gap_y, gap_size), passed defaults to False
Pipe(x, gap_y, gap_size) ==
    [x |-> x, gap_y |-> gap_y, gap_size |-> gap_size, passed |-> FALSE]

\* Pipe.update(config)
pipe_update(pipe) == [pipe EXCEPT !.x = pipe.x - pipe_speed]

\* Pipe.mark_passed()
mark_passed(pipe) == [pipe EXCEPT !.passed = TRUE]

\* GameState.reset(config): everything but high_score and mode
reset(s) ==
    [s EXCEPT !.bird = InitialBird,
              !.pipes = <<>>,
              !.score = 0,
              !.status = PLAYING,
              !.claude_ready = FALSE]

\* ----------------------------------------------------------------- physics
apply_gravity(bird) ==
    LET v == Min(bird.velocity + gravity, terminal_velocity)
    IN  [bird EXCEPT !.velocity = v, !.y = bird.y + v]

\* gap band of a pipe, as _is_pipe_at computes it
gap_top(pipe) == TruncHalf(2 * pipe.gap_y - pipe.gap_size)
gap_bottom(pipe) == TruncHalf(2 * pipe.gap_y + pipe.gap_size)

is_inside_pipe(bird, pipe) ==
    /\ bird.x >= pipe.x
    /\ bird.x < pipe.x + pipe_width
    /\ \/ bird.y < 2 * gap_top(pipe)
       \/ bird.y > 2 * gap_bottom(pipe)

check_collision(bird, pipes, height) ==
    \/ bird.y < 0
    \/ bird.y > 2 * (height - 1)
    \/ \E i \in 1..Len(pipes) : is_inside_pipe(bird, pipes[i])

check_pipe_passed(bird, pipe) == bird.x > pipe.x + pipe_width - 1

\* scores.save_high_score(path, score): the store then holds score
save_high_score(store, score) == score

\* --------------------------------------------------------------- game.py
\* spawn_pipe: gap_y is the value random.randint returned
spawn_margin == pipe_gap \div 2 + 2
GapChoices == spawn_margin .. (screen_height - spawn_margin)
spawn_pipe_front(pipes, gap_y) ==
    <<Pipe(screen_width, gap_y, pipe_gap)>> \o pipes

spawn_pipe(pipes, gap_y) == Append(pipes, Pipe(screen_width, gap_y, pipe_gap))

\* _is_pipe_at(pipe, col, row, config)
is_pipe_at(pipe, col, row) ==
    IF col < pipe.x \/ col >= pipe.x + pipe_width THEN FALSE
    ELSE IF gap_top(pipe) <= row /\ row <= gap_bottom(pipe) THEN FALSE
    ELSE TRUE

\* update_game, "Remove off-screen pipes"
on_screen_early(pipe) == pipe.x > pipe_width

on_screen(pipe) == pipe.x > -pipe_width
remove_off_screen(pipes) == SelectSeq(pipes, on_screen)

\* update_game, "Spawn new pipes"
should_spawn_inclusive(pipes) ==
    \/ pipes = <<>>
    \/ pipes[Len(pipes)].x <= screen_width - pipe_spacing

should_spawn(pipes) ==
    \/ pipes = <<>>
    \/ pipes[Len(pipes)].x < screen_width - pipe_spacing

\* update_game, "Check scoring": `not pipe.passed and check_pipe_passed(...)`
scores_now_unguarded(bird, pipe) == check_pipe_passed(bird, pipe)

scores_now(bird, pipe) == ~pipe.passed /\ check_pipe_passed(bird, pipe)

\* update_game, "Check scoring": `if state.score > state.high_score: ...`,
\* the new record and its immediate save.  w is the pair of the GameState
\* and the high-score store.
new_high_score_unsaved(w) ==
    IF w.s.score > w.s.high_score
    THEN [w EXCEPT !.s.high_score = w.s.score]
    ELSE w

new_high_score_late(w) ==
    IF w.s.score > w.s.high_score + 1
    THEN [s |-> [w.s EXCEPT !.high_score = w.s.score],
          store |-> save_high_score(w.store, w.s.score)]
    ELSE w

new_high_score(w) ==
    IF w.s.score > w.s.high_score
    THEN [s |-> [w.s EXCEPT !.high_score = w.s.score],
          store |-> save_high_score(w.store, w.s.score)]
    ELSE w

\* update_game, "Check scoring": the for loop from pipe i on
RECURSIVE score_loop(_, _)
score_loop(w, i) ==
    IF i > Len(w.s.pipes) THEN w
    ELSE IF scores_now(w.s.bird, w.s.pipes[i])
    THEN score_loop(
             new_high_score([w EXCEPT !.s.pipes[i] = mark_passed(@),
                                      !.s.score = @ + 1]),
             i + 1)
    ELSE score_loop(w, i + 1)

\* update_game, "Check collision"
collide(s) ==
    IF check_collision(s.bird, s.pipes, screen_height)
    THEN [s EXCEPT !.status = DEAD]
    ELSE s

\* update_game, "Update bird": y and velocity are copied from apply_gravity
update_bird_y_only(bird) ==
    LET updated_bird == apply_gravity(bird)
    IN  [bird EXCEPT !.y = updated_bird.y]

update_bird(bird) ==
    LET updated_bird == apply_gravity(bird)
    IN  [bird EXCEPT !.y = updated_bird.y, !.velocity = updated_bird.velocity]

\* update_game, "Update pipes" to "Spawn new pipes"; gap_y is the random draw
\* spawn_pipe would make
update_pipes(pipes, gap_y) ==
    LET moved == [i \in 1..Len(pipes) |-> pipe_update(pipes[i])]
        kept == remove_off_screen(moved)
    IN  IF should_spawn(kept) THEN spawn_pipe(kept, gap_y) ELSE kept

\* update_game(state, config), with the high-score store it writes
update_game_unguarded(s, store, gap_y) ==
    LET s1 == [s EXCEPT !.bird = update_bird(s.bird),
                        !.pipes = update_pipes(s.pipes, gap_y)]
        w == score_loop([s |-> s1, store |-> store], 1)
    IN  [s |-> collide(w.s), store |-> w.store]

update_game(s, store, gap_y) ==
    IF s.status # PLAYING THEN [s |-> s, store |-> store]
    ELSE LET s1 == [s EXCEPT !.bird = update_bird(s.bird),
                             !.pipes = update_pipes(s.pipes, gap_y)]
             w == score_loop([s |-> s1, store |-> store], 1)
         IN  [s |-> collide(w.s), store |-> w.store]

\* handle_input, the quit test: `key_lower == "q" or key == "\x03"`
is_quit_exact(c) == c = "q" \/ c = CtrlC

is_quit(c) == lower(c) = "q" \/ c = CtrlC

\* handle_input, the prompt test:
\* `key_lower in ("y", "n") and state.status == GameStatus.PROMPTED`
answers_prompt_any_status(s, key_lower) == key_lower \in {"y", "n"}

answers_prompt(s, key_lower) ==
    key_lower \in {"y", "n"} /\ s.status = PROMPTED

\* handle_input, the prompt's answer: confirm exits, decline dismisses
answer_prompt_keep_ready(s, key_lower) ==
    IF key_lower = "y"
    THEN [s EXCEPT !.status = EXITING]
    ELSE [s EXCEPT !.status = PLAYING]

answer_prompt(s, key_lower) ==
    IF key_lower = "y"
    THEN [s EXCEPT !.status = EXITING]
    ELSE [s EXCEPT !.claude_ready = FALSE, !.status = PLAYING]

\* handle_input, the flap test:
\* `key == " " and state.status == GameStatus.PLAYING`
flaps_any_status(s, c) == c = " "

flaps(s, c) == c = " " /\ s.status = PLAYING

\* handle_input, the flap: `state.bird.flap(config)`
flap_bird_adds(s) ==
    [s EXCEPT !.bird.velocity = s.bird.velocity + flap_strength]

flap_bird(s) == [s EXCEPT !.bird = flap(s.bird)]

\* handle_input(state, config, key)
handle_input(s, c) ==
    IF c = None THEN s
    ELSE LET key_lower == lower(c)
         IN  IF is_quit(c)
             THEN [s EXCEPT !.status = EXITING]
             ELSE IF flaps(s, c)
             THEN flap_bird(s)
             ELSE IF answers_prompt(s, key_lower)
             THEN answer_prompt(s, key_lower)
             ELSE s

\* ipc.check_signal_file: the file exists and holds "ready"
check_signal_file(sig) == sig

\* run_game_loop, "Check signal file for Claude ready (only when playing)":
\* the conditions under which check_signal_file is called at all
consults_signal(s, file) == file /\ s.status = PLAYING /\ ~s.claude_ready

check_signal_any_content(s, file, sig) ==
    IF consults_signal(s, file)
    THEN [s EXCEPT !.claude_ready = TRUE, !.status = PROMPTED]
    ELSE s

check_signal(s, file, sig) ==
    IF consults_signal(s, file) /\ check_signal_file(sig)
    THEN [s EXCEPT !.claude_ready = TRUE, !.status = PROMPTED]
    ELSE s

\* the while test of run_game_loop, taken at the end of an iteration
loop_pc(s) == IF s.status = EXITING THEN "done" ELSE "input"

\* --------------------------------------------------------------- the loop
Init ==
    /\ \E m \in GameMode, h \in 0..MaxInitHigh :
          /\ state = [bird |-> InitialBird, pipes |-> <<>>, score |-> 0,
                      high_score |-> h, status |-> PLAYING, mode |-> m,
                      claude_ready |-> FALSE]
          /\ saved = h
    /\ pc = "input"
    /\ key = None
    /\ k = None
    /\ stdin = None
    /\ signal_file \in BOOLEAN
    /\ signal = FALSE
    /\ consumed = FALSE
    /\ asserted = FALSE
    /\ retired = 0
    /\ clamped = FALSE

\* key = get_key_nonblocking(); handle_input(state, config, key)
HandleInput ==
    /\ pc = "input"
    /\ \E c \in KeyOrNone :
          /\ stdin # None => c = stdin
          /\ key' = c
          /\ state' = handle_input(state, c)
    /\ stdin' = None
    /\ pc' = "signal"
    /\ UNCHANGED <<k, signal_file, signal, saved, consumed, asserted, retired, clamped>>

\* if signal_file and state.status == PLAYING: ...
CheckSignal ==
    /\ pc = "signal"
    /\ state' = check_signal(state, signal_file, signal)
    /\ consumed' = (consumed \/ state'.status = PROMPTED)
    /\ pc' = "update"
    /\ UNCHANGED <<key, k, stdin, signal_file, signal, saved, asserted, retired, clamped>>

\* passed pipes that leave the sequence in this update
retired_now(s) ==
    IF s.status # PLAYING THEN 0
    ELSE Cardinality({i \in 1..Len(s.pipes) :
                        s.pipes[i].passed /\ ~on_screen(pipe_update(s.pipes[i]))})

\* update_game(state, config)
UpdateGame ==
    /\ pc = "update"
    /\ \E gap_y \in GapChoices :
          LET w == update_game(state, saved, gap_y)
          IN  /\ w.s.score <= MaxScore
              /\ state' = w.s
              /\ saved' = w.store
    /\ retired' = retired + retired_now(state)
    /\ clamped' = (state.status = PLAYING
                    /\ state.bird.velocity + gravity > terminal_velocity)
    /\ pc' = "death"
    /\ UNCHANGED <<key, k, stdin, signal_file, signal, consumed, asserted>>

\* "Handle death": not dead, nothing to do
NoDeath_unhandled ==
    /\ pc = "death"
    /\ pc' = loop_pc(state)
    /\ UNCHANGED <<state, key, k, stdin, signal_file, signal, saved,
                   consumed, asserted, retired, clamped>>

NoDeath ==
    /\ pc = "death"
    /\ state.status # DEAD
    /\ pc' = loop_pc(state)
    /\ UNCHANGED <<state, key, k, stdin, signal_file, signal, saved,
                   consumed, asserted, retired, clamped>>

\* "Handle death", AUTO_RESTART: time.sleep(death_display_time); a key typed
\* meanwhile waits in stdin
DeathDisplay ==
    /\ pc = "death"
    /\ state.status = DEAD
    /\ state.mode = AUTO_RESTART
    /\ stdin' \in KeyOrNone
    /\ pc' = "reset"
    /\ UNCHANGED <<state, key, k, signal_file, signal, saved,
                   consumed, asserted, retired, clamped>>

\* "Handle death", AUTO_RESTART: `state.reset(config)`
restart_status_only(s) == [s EXCEPT !.status = PLAYING]

restart(s) == reset(s)

\* "Handle death", AUTO_RESTART: the reset after the sleep
Reset ==
    /\ pc = "reset"
    /\ state' = restart(state)
    /\ consumed' = FALSE
    /\ retired' = 0
    /\ clamped' = FALSE
    /\ pc' = loop_pc(state')
    /\ UNCHANGED <<key, k, stdin, signal_file, signal, saved, asserted>>

\* "Handle death", SINGLE_LIFE: enter the wait loop
DeathWait ==
    /\ pc = "death"
    /\ state.status = DEAD
    /\ state.mode # AUTO_RESTART
    /\ pc' = "wait"
    /\ UNCHANGED <<state, key, k, stdin, signal_file, signal, saved,
                   consumed, asserted, retired, clamped>>

\* one round of the wait loop: `k = get_key_nonblocking(); if k: break`, and
\* after the loop `state.status = GameStatus.EXITING`
wait_round_resets(s, read) == IF read # None THEN reset(s) ELSE s

wait_round(s, read) ==
    IF read # None THEN [s EXCEPT !.status = EXITING] ELSE s

\* "Handle death", SINGLE_LIFE: the wait loop
WaitKey ==
    /\ pc = "wait"
    /\ \E read \in KeyOrNone :
          /\ k' = read
          /\ state' = wait_round(state, read)
          /\ pc' = IF read = None THEN "wait" ELSE loop_pc(state')
    /\ UNCHANGED <<key, stdin, signal_file, signal, saved,
                   consumed, asserted, retired, clamped>>

\* the outside process writes or removes the signal file
WriteSignal ==
    /\ pc \notin {"done"}
    /\ signal_file
    /\ signal' = ~signal
    /\ asserted' = (asserted \/ signal')
    /\ UNCHANGED <<state, pc, key, k, stdin, signal_file, saved,
                   consumed, retired, clamped>>

Next ==
    \/ HandleInput
    \/ CheckSignal
    \/ UpdateGame
    \/ NoDeath
    \/ DeathDisplay
    \/ Reset
    \/ DeathWait
    \/ WaitKey
    \/ WriteSignal

Spec == Init /\ [][Next]_vars

\* a key is read by the wait loop
KeyPressed == WaitKey /\ k' # None

\* The loop keeps running: the death display's sleep returns, the reset and
\* the wait loop follow it, and while the game-over screen waits some key is
\* eventually pressed.
FairSpec ==
    /\ Spec
    /\ WF_vars(DeathDisplay)
    /\ WF_vars(Reset)
    /\ WF_vars(DeathWait)
    /\ WF_vars(KeyPressed)

TypeOK ==
    /\ state.status \in GameStatus
    /\ state.mode \in GameMode
    /\ state.score \in 0..MaxScore
    /\ pc \in {"input", "signal", "update", "death", "reset", "wait", "done"}

\* ------------------------------------------------------------ the claims
QuitKeys == {"q", "Q", CtrlC}
ConfirmKeys == {"y", "Y"}
DeclineKeys == {"n", "N"}

\* the steps that are calls of handle_input and of update_game
IsHandleInputCall == pc = "input" /\ pc' = "signal"
IsUpdateGameCall == pc = "update" /\ pc' = "death"
IsResetCall == pc = "reset" /\ pc' # "reset"

\* C1, the transition table: a step that changes the status is one of the
\* listed transitions, taken at the place and for the cause the table names.
C1_Step ==
    LET from == state.status
        to == state'.status
    IN  from # to =>
          \/ from = PLAYING /\ to = DEAD /\ IsUpdateGameCall
          \/ from = PLAYING /\ to = PROMPTED /\ pc = "signal" /\ signal
          \/ from = PROMPTED /\ to = EXITING /\ IsHandleInputCall
                /\ key' \in ConfirmKeys
          \/ from = PROMPTED /\ to = PLAYING /\ IsHandleInputCall
                /\ key' \in DeclineKeys
          \/ from = DEAD /\ to = PLAYING /\ pc = "reset"
                /\ state.mode = AUTO_RESTART
          \/ from = DEAD /\ to = EXITING /\ pc = "wait"
                /\ state.mode = SINGLE_LIFE
          \/ to = EXITING /\ IsHandleInputCall /\ key' \in QuitKeys

\* C1: Playing is the status after a restart.
C1_Restart == IsResetCall => state'.status = PLAYING

\* C1, as stated: once Exiting, the status stays and neither handle_input nor
\* update_game is called again.
C1_ExitStrict ==
    state.status = EXITING =>
        /\ state'.status = EXITING
        /\ ~IsHandleInputCall
        /\ ~IsUpdateGameCall

\* C1, amended: once Exiting, handle_input is not called again and whatever
\* is still called (the update_game call of the same frame) changes nothing.
C1_ExitQuiet ==
    state.status = EXITING =>
        /\ state' = state
        /\ saved' = saved
        /\ ~IsHandleInputCall
        /\ pc' \in {"signal", "update", "death", "done"}

\* C1 (original statement): the status starts Playing, changes only along
\* the listed transitions, and once Exiting nothing is called any more.
C1_Original ==
    /\ state.status = PLAYING
    /\ [][C1_Step /\ C1_Restart /\ C1_ExitStrict]_vars

\* C1 (amended): the status starts Playing, changes only along the listed
\* transitions, is Playing after every restart, and once Exiting it never
\* changes, handle_input is not called again, and the update_game call that
\* remains in the frame of the exit changes nothing.
C1_Transitions ==
    /\ state.status = PLAYING
    /\ [][C1_Step /\ C1_Restart /\ C1_ExitQuiet]_vars

\* C1 witness: update_game has been called in a frame whose status was
\* already Exiting.
C1_Witness == state.status = EXITING /\ pc = "death"

C3_AtMostOncePerLife ==
    [][consumed => ~(state.status = PLAYING /\ state'.status = PROMPTED)]_vars

\* C4: the status becomes Prompted only at the signal check, from Playing,
\* with a signal file configured and holding "ready" and claude_ready false;
\* without a signal file, or while the file never held "ready", the status is
\* never Prompted; and Dead is entered from Playing only.
C4_PromptOnlyOnSignal ==
    /\ [](state.status = PROMPTED => signal_file /\ asserted)
    /\ [][/\ (state'.status = PROMPTED /\ state.status # PROMPTED)
               => /\ pc = "signal"
                  /\ state.status = PLAYING
                  /\ signal_file
                  /\ signal
                  /\ ~state.claude_ready
                  /\ state'.claude_ready
          /\ (state'.status = DEAD /\ state.status # DEAD)
               => state.status = PLAYING]_vars

\* C4 witness: the prompt has been raised by the signal check.
C4_Witness ==
    /\ state.status = PROMPTED
    /\ pc = "update"
    /\ state.claude_ready
    /\ signal

\* C5: handle_input with a quit key changes the status to Exiting and nothing
\* else, from Playing, Prompted and Dead alike.
C5_QuitPure ==
    \A st \in {PLAYING, PROMPTED, DEAD}, c \in QuitKeys :
        handle_input([state EXCEPT !.status = st], c)
            = [state EXCEPT !.status = EXITING]

FreshLife(s) ==
    [bird |-> InitialBird, pipes |-> <<>>, score |-> 0, status |-> PLAYING,
     claude_ready |-> FALSE, high_score |-> s.high_score, mode |-> s.mode]

\* C6: in auto-restart mode Dead is entered from Playing by update_game; while
\* Dead nothing changes until the reset, which leaves score 0, no pipes, the
\* initial bird, claude_ready false, status Playing and the high score it had
\* at death (at least the score of the life that ended); and the reset comes.
C6_AutoRestart ==
    /\ [][/\ (state.mode = AUTO_RESTART /\ state'.status = DEAD
                 /\ state.status # DEAD)
               => /\ state.status = PLAYING
                  /\ IsUpdateGameCall
          /\ (state.mode = AUTO_RESTART /\ state.status = DEAD)
               => \/ state' = state /\ ~IsResetCall
                  \/ /\ IsResetCall
                     /\ state' = FreshLife(state)
                     /\ state'.high_score >= state.score
                     /\ saved' = saved]_vars
    /\ (state.mode = AUTO_RESTART /\ state.status = DEAD)
          ~> (state = FreshLife(state) /\ pc = "input")

\* C6 witness: a new life in auto-restart mode whose high score is a record
\* set in an earlier life.
C6_Witness ==
    /\ state.mode = AUTO_RESTART
    /\ pc = "input"
    /\ state = FreshLife(state)
    /\ state.high_score > MaxInitHigh

\* C7: in single-life mode Dead is entered from Playing; while Dead nothing
\* changes but by the wait loop reading a key, and any key makes the status
\* Exiting and changes nothing else (no reset); the status never returns to
\* Playing; and with a key eventually pressed Exiting is reached.
C7_SingleLife ==
    /\ [](state.mode = SINGLE_LIFE /\ state.status = DEAD
            => \A read \in Keys :
                  wait_round(state, read) = [state EXCEPT !.status = EXITING])
    /\ [][/\ (state.mode = SINGLE_LIFE /\ state'.status = DEAD
                 /\ state.status # DEAD)
               => state.status = PLAYING
          /\ (state.mode = SINGLE_LIFE /\ state.status = DEAD)
               => \/ state' = state /\ ~IsResetCall
                  \/ /\ pc = "wait"
                     /\ k' \in Keys
                     /\ state' = [state EXCEPT !.status = EXITING]
          /\ (state.mode = SINGLE_LIFE /\ state.status \in {DEAD, EXITING})
               => state'.status # PLAYING]_vars
    /\ (state.mode = SINGLE_LIFE /\ state.status = DEAD)
          ~> (state.status = EXITING /\ pc = "done")

\* C7 witness: the loop has ended on an unrecognized key after a death in
\* single-life mode, the score and the pipes of that life still in place.
C7_Witness ==
    /\ state.mode = SINGLE_LIFE
    /\ pc = "done"
    /\ k = "x"
    /\ state.status = EXITING
    /\ state.score > 0
    /\ state.pipes # <<>>

\* the number of live pipes whose passed flag is set
LivePassed(s) ==
    Cardinality({i \in 1..Len(s.pipes) : s.pipes[i].passed})

\* pipe i of the next state is pipe j of this one, one step further left
SamePipe(j, i) == state'.pipes[i].x = state.pipes[j].x - pipe_speed

\* the pipes whose passed flag this step sets
NewlyPassed ==
    {i \in 1..Len(state'.pipes) :
        /\ state'.pipes[i].passed
        /\ ~\E j \in 1..Len(state.pipes) :
               SamePipe(j, i) /\ state.pipes[j].passed}

\* C8: a passed flag never reverts; a step raises the score by the number of
\* flags it sets, one per pipe; within a life the score never falls and is
\* the number of pipes of that life whose flag has been set (those retired
\* and those still live).
C8_Scoring ==
    /\ [](state.score = retired + LivePassed(state))
    /\ [][IF IsResetCall THEN state'.score = 0
          ELSE IF IsUpdateGameCall /\ state.status = PLAYING
          THEN /\ \A j \in 1..Len(state.pipes), i \in 1..Len(state'.pipes) :
                     (SamePipe(j, i) /\ state.pipes[j].passed)
                        => state'.pipes[i].passed
               /\ state'.score = state.score + Cardinality(NewlyPassed)
               /\ state'.score >= state.score
          ELSE /\ state'.pipes = state.pipes
               /\ state'.score = state.score]_vars

\* C8 witness: two pipes have been passed in one life, one of them retired
\* since and the other still live.
C8_Witness ==
    /\ state.score = 2
    /\ retired = 1
    /\ LivePassed(state) = 1

\* C9: the high score never falls; it changes only in an update_game call;
\* an update_game call that leaves the score above the old high score leaves
\* the high score equal to the score and saved, whether or not the same call
\* finds a collision; the store always holds the in-memory high score.
C9_HighScore ==
    /\ [](saved = state.high_score)
    /\ [][/\ state'.high_score >= state.high_score
          /\ state'.high_score # state.high_score
               => IsUpdateGameCall /\ state.status = PLAYING
          /\ (IsUpdateGameCall /\ state'.score > state.high_score)
               => /\ state'.high_score = state'.score
                  /\ saved' = state'.score]_vars

\* C9 witness: in single-life mode, the update_game call that passed a pipe
\* (the pipe is exactly one pipe width behind the bird) set a record, saved
\* it and found a collision.
C9_Witness ==
    /\ state.mode = SINGLE_LIFE
    /\ pc = "death"
    /\ state.status = DEAD
    /\ state.score = state.high_score
    /\ state.high_score > MaxInitHigh
    /\ saved = state.high_score
    /\ \E i \in 1..Len(state.pipes) :
          /\ state.pipes[i].passed
          /\ state.pipes[i].x = state.bird.x - pipe_width

\* C10: the velocity never exceeds terminal_velocity in magnitude; an
\* update_game call while Playing leaves min(velocity + gravity,
\* terminal_velocity); otherwise the velocity changes only by a flap, to
\* flap_strength, or by a reset, to 0.
C10_Velocity ==
    /\ [](/\ state.bird.velocity <= terminal_velocity
          /\ -state.bird.velocity <= terminal_velocity)
    /\ [][IF IsUpdateGameCall /\ state.status = PLAYING
          THEN state'.bird.velocity
                  = Min(state.bird.velocity + gravity, terminal_velocity)
          ELSE state'.bird.velocity # state.bird.velocity
                  => \/ /\ IsHandleInputCall
                        /\ key' = " "
                        /\ state.status = PLAYING
                        /\ state'.bird.velocity = flap_strength
                     \/ /\ IsResetCall
                        /\ state'.bird.velocity = 0]_vars

\* C10 witness: a gravity step has been cut off at terminal_velocity.
C10_Witness ==
    /\ clamped
    /\ pc = "death"
    /\ state.bird.velocity = terminal_velocity

\* a frame in which handle_input flapped: the space key was read and the
\* status is still Playing at the update_game call
IsFlapFrameUpdate == IsUpdateGameCall /\ key = " " /\ state.status = PLAYING

\* C11, the flap itself: handle_input with the space key while Playing leaves
\* velocity = flap_strength whatever it was, and changes nothing else (the
\* row stays until the gravity step).
C11_FlapSets ==
    (IsHandleInputCall /\ key' = " " /\ state.status = PLAYING)
        => state' = [state EXCEPT !.bird.velocity = flap_strength]

\* C11 (original statement): a flap sets the velocity to flap_strength and
\* leaves the row; after the gravity step of that frame the row is the prior
\* row plus flap_strength (row 10, flap -2.0: row 8.0).
C11_Original ==
    [][/\ C11_FlapSets
       /\ IsFlapFrameUpdate
            => state'.bird.y = state.bird.y + flap_strength]_vars

\* C11 (amended): a flap sets the velocity to flap_strength and leaves the
\* row; the gravity step of that frame first adds gravity to the velocity, so
\* the row becomes the prior row plus min(flap_strength + gravity,
\* terminal_velocity) (row 10, flap -2.0, gravity 0.5: row 8.5).
C11_Flap ==
    [][/\ C11_FlapSets
       /\ IsFlapFrameUpdate
            => /\ state.bird.velocity = flap_strength
               /\ state'.bird.velocity
                     = Min(flap_strength + gravity, terminal_velocity)
               /\ state'.bird.y
                     = state.bird.y + Min(flap_strength + gravity,
                                          terminal_velocity)]_vars

\* C11 witness: the first frame of a life was a flap frame: from the start
\* row with velocity 0 the bird is now flap_strength + gravity further.
C11_Witness ==
    /\ pc = "death"
    /\ key = " "
    /\ state.status = PLAYING
    /\ state.bird.velocity = flap_strength + gravity
    /\ state.bird.y = InitialBird.y + flap_strength + gravity
    /\ Len(state.pipes) = 1
    /\ state.pipes[1].x = screen_width

\* an update_game call that is not stopped by the status guard
IsPlayingFrame == IsUpdateGameCall /\ state.status = PLAYING

\* the pipes of this state that outlive the retirement of the next frame
Survivors ==
    {j \in 1..Len(state.pipes) : state.pipes[j].x - pipe_speed > -pipe_width}

\* the place of the last of them in the sequence
LastSurvivor == CHOOSE j \in Survivors : \A i \in Survivors : i <= j

\* after advancing and retiring, the collection is empty or its last pipe is
\* left of screen_width - pipe_spacing
SpawnDue ==
    \/ Survivors = {}
    \/ state.pipes[LastSurvivor].x - pipe_speed < screen_width - pipe_spacing

\* the pipes of the next state that stand at the spawn column
Spawned == {i \in 1..Len(state'.pipes) : state'.pipes[i].x = screen_width}

\* C12: a Playing frame spawns exactly one pipe, at x = screen_width, when
\* after advancing and retiring the collection is empty or its last pipe is
\* left of screen_width - pipe_spacing, and none otherwise; the older
\* neighbour of a new pipe is at least pipe_spacing columns left of
\* screen_width, and the distance between two neighbours stays as it is while
\* both are live.
C12_Spawn ==
    /\ [][IsPlayingFrame =>
            /\ Cardinality(Spawned) = (IF SpawnDue THEN 1 ELSE 0)
            /\ Len(state'.pipes) = Cardinality(Survivors) + Cardinality(Spawned)
            /\ Spawned # {} =>
                 /\ Spawned = {Len(state'.pipes)}
                 /\ Len(state'.pipes) >= 2 =>
                      screen_width - state'.pipes[Len(state'.pipes) - 1].x
                          >= pipe_spacing
            /\ \A j \in Survivors :
                 j + 1 \in Survivors =>
                   \E i \in 1..(Len(state'.pipes) - 1) :
                      /\ SamePipe(j, i)
                      /\ SamePipe(j + 1, i + 1)
                      /\ state'.pipes[i + 1].x - state'.pipes[i].x
                            = state.pipes[j + 1].x - state.pipes[j].x]_vars
    /\ [](\A i \in 1..(Len(state.pipes) - 1) :
             state.pipes[i + 1].x - state.pipes[i].x >= pipe_spacing)

\* C12 witness: a frame has just spawned a pipe behind an older one that has
\* moved on since its own spawn, and an earlier frame spawned nothing because
\* the last pipe was still too close.
C12_Witness ==
    /\ pc = "death"
    /\ state.status = PLAYING
    /\ Len(state.pipes) = 2
    /\ state.pipes[2].x = screen_width
    /\ state.pipes[2].x - state.pipes[1].x = pipe_spacing + 1

\* the gap band of the specification: the rows r with
\* gap_y - gap_size/2 <= r <= gap_y + gap_size/2 (r2 is twice the row)
InGapBand(pipe, r2) ==
    /\ 2 * pipe.gap_y - pipe.gap_size <= r2
    /\ r2 <= 2 * pipe.gap_y + pipe.gap_size

InColumnSpan(pipe, col) == pipe.x <= col /\ col < pipe.x + pipe_width

\* C13: a cell is blocked by a live pipe iff its column is in
\* [x, x + pipe_width) and its row is outside the inclusive gap band
\* [gap_y - gap_size/2, gap_y + gap_size/2] (centre 10, size 7: rows 7..13
\* open, rows 6 and 14 blocked); the bird collides iff its row is outside
\* [0, screen_height - 1] or it is in a blocked cell of a live pipe.
C13_Blocked ==
    /\ \A i \in 1..Len(state.pipes) :
         \A col \in 0..(screen_width - 1), row \in 0..(screen_height - 1) :
            is_pipe_at(state.pipes[i], col, row)
               <=> /\ InColumnSpan(state.pipes[i], col)
                   /\ ~InGapBand(state.pipes[i], 2 * row)
    /\ check_collision(state.bird, state.pipes, screen_height)
          <=> \/ state.bird.y < 0
              \/ state.bird.y > 2 * (screen_height - 1)
              \/ \E i \in 1..Len(state.pipes) :
                    /\ InColumnSpan(state.pipes[i], state.bird.x)
                    /\ ~InGapBand(state.pipes[i], state.bird.y)

\* the blocked field rows of a pipe's columns above and below its gap centre
BlockedAbove(pipe) ==
    {row \in 0..(screen_height - 1) :
        is_pipe_at(pipe, pipe.x, row) /\ row < pipe.gap_y}

BlockedBelow(pipe) ==
    {row \in 0..(screen_height - 1) :
        is_pipe_at(pipe, pipe.x, row) /\ row > pipe.gap_y}

\* what a frame's new pipe looks like: not passed, the configured gap size,
\* its centre drawn from [margin, screen_height - margin]
C14_SpawnFields ==
    IsPlayingFrame =>
        \A i \in Spawned :
            /\ ~state'.pipes[i].passed
            /\ state'.pipes[i].gap_size = pipe_gap
            /\ state'.pipes[i].gap_y >= pipe_gap \div 2 + 2
            /\ state'.pipes[i].gap_y <= screen_height - (pipe_gap \div 2 + 2)

\* C14: every spawned pipe is not passed, has the configured gap size and a
\* gap centre in [margin, screen_height - margin] with
\* margin = pipe_gap \div 2 + 2, and so has at least 2 blocked field rows
\* above its gap band and at least 2 below.
C14_Buffer ==
    /\ [][C14_SpawnFields]_vars
    /\ [](\A i \in 1..Len(state.pipes) :
             /\ Cardinality(BlockedAbove(state.pipes[i])) >= 2
             /\ Cardinality(BlockedBelow(state.pipes[i])) >= 2)

\* the part of C14 that the code keeps: the fields of a new pipe, and a gap
\* band that lies inside the field with a blocked row on either side
C14_OnScreen ==
    /\ [][C14_SpawnFields]_vars
    /\ [](\A i \in 1..Len(state.pipes) :
             /\ gap_top(state.pipes[i]) >= 1
             /\ gap_bottom(state.pipes[i]) <= screen_height - 2)

\* C15: along the sequence x is strictly increasing, so the sequence order
\* is the spawn order and the left-to-right order; a new pipe is the last
\* element and the rightmost; retirement removes a prefix of the sequence
\* and leaves the rest in place.
C15_Order ==
    /\ [](\A i \in 1..(Len(state.pipes) - 1) :
             state.pipes[i].x < state.pipes[i + 1].x)
    /\ [][IsPlayingFrame =>
            /\ Spawned # {} =>
                 /\ Spawned = {Len(state'.pipes)}
                 /\ \A i \in 1..(Len(state'.pipes) - 1) :
                       state'.pipes[i].x < screen_width
            /\ \E n \in 0..Len(state.pipes) :
                 /\ Survivors = (n + 1)..Len(state.pipes)
                 /\ \A j \in Survivors :
                       /\ j - n <= Len(state'.pipes)
                       /\ SamePipe(j, j - n)
                       /\ state'.pipes[j - n].gap_y = state.pipes[j].gap_y]_vars

\* C15 witness: the first pipe of this life has been retired, its successor
\* is now first in the sequence and a newer pipe stands behind it.
C15_Witness ==
    /\ retired >= 1
    /\ Len(state.pipes) = 2
    /\ state.pipes[1].x < state.pipes[2].x
    /\ ~state.pipes[1].passed

\* the keys no branch of handle_input matches when the status is st
Unmatched(st) ==
    {c \in KeyOrNone :
        /\ c \notin QuitKeys
        /\ c = " " => st # PLAYING
        /\ c \in ConfirmKeys \cup DeclineKeys => st # PROMPTED}

\* C16: handle_input is total and is the identity on unmatched input: for
\* every status, an unrecognized key, no key, the space key outside Playing
\* and y/n outside Prompted return the state as it was, and every key in
\* every status returns a state with one of the four statuses; a call of the
\* loop with such a key leaves the state and the high-score store alone.
C16_NoOp ==
    /\ [](\A st \in GameStatus :
             LET s == [state EXCEPT !.status = st]
             IN  /\ \A c \in Unmatched(st) : handle_input(s, c) = s
                 /\ \A c \in KeyOrNone :
                       /\ handle_input(s, c).status \in GameStatus
                       /\ DOMAIN handle_input(s, c) = DOMAIN s)
    /\ [][(IsHandleInputCall /\ key' \in Unmatched(state.status))
             => state' = state /\ saved' = saved]_vars

\* C16 witness: the loop has just handed handle_input the space key while
\* the prompt was up, with pipes on the field and the bird in motion.
C16_Witness ==
    /\ pc = "signal"
    /\ key = " "
    /\ state.status = PROMPTED
    /\ state.pipes # <<>>
    /\ state.bird.velocity > 0

\* the part of the state the simulation moves
Simulation(s) == <<s.bird, s.pipes, s.score, s.high_score>>

\* C17: update_game with status Prompted, Dead or Exiting returns the state
\* and the store as they were, whatever the random draw; while the status
\* stays Prompted the bird, the pipes, the score and the high score stay as
\* they are; the signal check that raises the prompt touches none of them and
\* the update_game call of that frame does nothing.
C17_Paused ==
    /\ [](\A st \in GameStatus \ {PLAYING} :
             \A gap_y \in GapChoices :
                LET s == [state EXCEPT !.status = st]
                IN  update_game(s, saved, gap_y) = [s |-> s, store |-> saved])
    /\ [][/\ (IsUpdateGameCall /\ state.status # PLAYING)
               => state' = state /\ saved' = saved
          /\ (state.status = PROMPTED /\ state'.status = PROMPTED)
               => Simulation(state') = Simulation(state) /\ saved' = saved
          /\ (state.status = PLAYING /\ state'.status = PROMPTED)
               => /\ pc = "signal"
                  /\ pc' = "update"
                  /\ Simulation(state') = Simulation(state)]_vars

\* C17 witness: the update_game call of a frame has returned with the prompt
\* up, the bird falling and a pipe on the field that a step would have moved.
C17_Witness ==
    /\ pc = "death"
    /\ state.status = PROMPTED
    /\ state.bird.velocity > 0
    /\ Len(state.pipes) = 2
    /\ state.score = 1

\* C18: the high score is never below the score (so a state with score 5
\* and high score 3 is never reached), given that a session starts with
\* score 0 and a loaded high score of at least 0; the high score changes only
\* in an update_game call that raises the score.
C18_HighAtLeastScore ==
    /\ [](state.high_score >= state.score)
    /\ [][state'.high_score # state.high_score
             => /\ IsPlayingFrame
                /\ state'.score > state.score
                /\ NewlyPassed # {}]_vars

\* C18 witness: the score has caught up with a loaded high score above 0 and
\* then beaten it, so the record has moved with the score.
C18_Witness ==
    /\ state.score = MaxInitHigh + 1
    /\ state.high_score = state.score
    /\ saved = state.score

\* C19: a death is dealt with in the frame that detects it: at the top of an
\* iteration the status is Playing or Prompted, and handle_input, the signal
\* check and update_game are never reached with status Dead; a key can only
\* pile up unread during the AutoRestart death display, nothing reads it
\* before the reset, and the handle_input call that gets it finds the fresh
\* state of the next life.
C19_DeadResolved ==
    /\ [](pc = "input" => state.status \in {PLAYING, PROMPTED})
    /\ [](pc \in {"signal", "update"} => state.status # DEAD)
    /\ [][/\ IsHandleInputCall => state.status # DEAD
          /\ (stdin = None /\ stdin' # None)
               => /\ pc = "death"
                  /\ pc' = "reset"
                  /\ state.status = DEAD
                  /\ state.mode = AUTO_RESTART
                  /\ state' = state
          /\ (stdin # None /\ state.status = DEAD)
               => /\ stdin' = stdin
                  /\ key' = key
                  /\ state' = state \/ (IsResetCall /\ state'.status = PLAYING)
          /\ (stdin # None /\ IsHandleInputCall)
               => /\ key' = stdin
                  /\ state.status = PLAYING
                  /\ state.pipes = <<>>
                  /\ state.score = 0
                  /\ state' = handle_input(state, stdin)]_vars

\* C19 witness: a flap typed during the death display is still unread at the
\* top of the first iteration after the reset.
C19_Witness ==
    /\ pc = "input"
    /\ stdin = " "
    /\ state.status = PLAYING
    /\ state.pipes = <<>>
    /\ state.bird.velocity = 0

\* pipe and bird share a column
OverlapsBird(pipe) ==
    pipe.x <= state.bird.x /\ state.bird.x < pipe.x + pipe_width

\* C20: with pipe_speed 1 and the bird's column at least 1, every pipe that
\* the retirement rule (x <= -pipe_width) removes has passed = TRUE; a pipe
\* with passed = TRUE does not overlap the bird's column, now or later; and
\* an update_game call raises the score by at most 1 and marks at most one
\* pipe.
C20_NoneUnscored ==
    /\ [](\A i \in 1..Len(state.pipes) :
             state.pipes[i].passed
                => /\ ~OverlapsBird(state.pipes[i])
                   /\ state.pipes[i].x + pipe_width <= state.bird.x)
    /\ [][IsPlayingFrame =>
            /\ \A j \in 1..Len(state.pipes) :
                  LET gone == ~\E i \in 1..Len(state'.pipes) : SamePipe(j, i)
                  IN  /\ gone <=> state.pipes[j].x - pipe_speed <= -pipe_width
                      /\ gone => state.pipes[j].passed
            /\ state'.score <= state.score + 1
            /\ Cardinality(NewlyPassed) <= 1]_vars

\* C20 witness: in one life a passed pipe has been retired and the next one
\* has been passed in its turn and is on its way out, left of the bird.
C20_Witness ==
    /\ retired = 1
    /\ state.score = 2
    /\ state.pipes # <<>>
    /\ state.pipes[1].passed
    /\ state.pipes[1].x + pipe_width < state.bird.x
====
